---- MODULE Spec2Model ----
(***************************************************************************)
(* Model of the contiguous frame pool (cont_frame_pool.C) and of the       *)
(* virtual memory pool (vm_pool.C) of the x86 virtual memory manager.      *)
(*                                                                         *)
(* The frame pool keeps a 2-bit state per frame in a bitmap that lives in  *)
(* raw physical memory; the pools are chained in a process-wide list.      *)
(* The bitmap is modelled as the sequence of its 2-bit fields: field i is  *)
(* bits 2*(i%4) and 2*(i%4)+1 of byte i/4, which is exactly what the masks *)
(* of get_state / set_state select.  The sequence is 1-based, frame index  *)
(* i is element i+1.                                                       *)
(***************************************************************************)
EXTENDS Integers, Sequences, FiniteSets, TLC

(* ------------------------------ bounds --------------------------------- *)
\* Largest n_frames of a pool that is operated on.
MaxPoolFrames == 3
\* Number of 2-bit fields of storage modelled past a pool's last entry.
TailLen == 1
\* Upper bound on the mark_inaccessible calls of one run.
MaxMarks == 1

(* ---------------------------- machine model ---------------------------- *)
\* unsigned long / unsigned int arithmetic wraps at the word size.  The
\* target's words are 32 bits wide; the model wraps at 30 bits, the widest
\* word whose sums the model checker's integers hold.
WordMod == 2^30
\* Bytes per frame.  The target's frames hold 4 KB; the model scales the
\* frame down so that pools around the bitmap capacity stay small.
FRAME_SIZE == 2

\* Sizes of the pools that are operated on.
SizeSet == (MaxPoolFrames - 1) .. MaxPoolFrames
\* <<base_frame_no, n_frames>> offered to the constructor where two pools
\* coexist: a pool at frame 0 and a two-frame pool right behind the largest.
Shapes == {<<0, n>> : n \in SizeSet} \cup {<<MaxPoolFrames, 2>>}
\* Base frame numbers offered where a single pool is built.
BaseSet == {0, 1}
\* info_frame_no offered: 0 (bitmap in the pool's first frame) or a frame
\* outside every pool.
InfoSet == {0, 2 * MaxPoolFrames + 3}
\* What memory holds before any pool is built: 0x00 or 0xFF bytes, that is
\* 2-bit fields reading 00 or 11.
JunkSet == {0, 3}
\* Frame numbers offered to release_frames: every pool frame and one beyond.
FrameNos == 0 .. (MaxPoolFrames + 2)

VARIABLES
  pools,     \* the registry: list_head .. last_node, in next_pool order
  mem,       \* physical memory holding the bitmaps: address -> 2-bit fields
  last,      \* the last call: operation, arguments, return value, console line
  halted,    \* an assert failed: the kernel has stopped
  junk,      \* the 2-bit pattern uninitialised memory holds
  n_marks,   \* number of mark_inaccessible calls so far
  vm,        \* the VMPool object: _base_address, _size, region_iterator
  allocated_region,  \* the region table at _base_address: slot -> descriptor
  vm_last,   \* the last VMPool call: arguments, return value, page table calls
  vm_halted, \* an assert of the VMPool failed
  released,  \* release has been called on the VMPool
  handed     \* what allocate has returned so far: the addresses returned
             \* and every address of the regions they start, live or released

fvars == <<pools, mem, last, halted, junk, n_marks>>
vmvars == <<vm, allocated_region, vm_last, vm_halted, released, handed>>
vars == <<fvars, vmvars>>

NoCall == [op |-> "none", pool |-> 0, a |-> 0, n |-> 0, ret |-> 0, msg |-> ""]

(* ------------------------- get_state / set_state ----------------------- *)
\* get_state: 00 -> Free, 11 -> Used, anything else -> HoS
get_state(bitmap, frame_no) ==
  LET result == bitmap[frame_no + 1]
  IN  IF result = 0 THEN "Free"
      ELSE IF result = 3 THEN "Used"
      ELSE "HoS"

\* set_state: Used -> 11, Free -> 00, HoS -> 10
set_state(bitmap, frame_no, state) ==
  [bitmap EXCEPT ![frame_no + 1] =
     CASE state = "Used" -> 3
       [] state = "Free" -> 0
       [] state = "HoS"  -> 2]

(* ------------------------------ constructor ---------------------------- *)
\* for(fno = 0; fno < n_frames; fno++) set_state(fno, Free):
\* fields 0 .. n_frames-1 become 00, every other field keeps its content.
InitFree(bitmap, n_frames) ==
  [f \in DOMAIN bitmap |-> IF f - 1 < n_frames THEN 0 ELSE bitmap[f]]

\* The constructor's address choice for the bitmap.
BitmapAddr(base_frame_no, info_frame_no) ==
  IF info_frame_no = 0 THEN base_frame_no * FRAME_SIZE
                       ELSE info_frame_no * FRAME_SIZE

\* The constructor proper, past its assert: the pool object and its bitmap.
\* before is what the memory at the bitmap address held before.
ContFramePool(base_frame_no, n_frames, info_frame_no, before) ==
  LET cleared == InitFree(before, n_frames)
      self    == info_frame_no = 0
  IN  [pool   |-> [base_frame_no |-> base_frame_no,
                   n_frames      |-> n_frames,
                   n_free_frames |-> IF self THEN (n_frames - 1) % WordMod
                                             ELSE n_frames,
                   info_frame_no |-> info_frame_no,
                   bitmap        |-> BitmapAddr(base_frame_no, info_frame_no)],
       bitmap |-> IF self THEN set_state(cleared, 0, "Used") ELSE cleared]

\* assert(_n_frames <= FRAME_SIZE * 8)
CtorAssert(n_frames) == n_frames <= FRAME_SIZE * 8

Range(p) == p.base_frame_no .. (p.base_frame_no + p.n_frames - 1)

\* The caller gives every pool its own frames and its own bitmap storage.
SaneLayout(b, n, i) ==
  \A k \in 1..Len(pools) :
     /\ Range(pools[k]) \cap (b .. (b + n - 1)) = {}
     /\ pools[k].bitmap # BitmapAddr(b, i)

Construct(b, n, i) ==
  /\ ~halted
  /\ n >= 1
  /\ SaneLayout(b, n, i)
  /\ IF CtorAssert(n)
       THEN LET r == ContFramePool(b, n, i, [k \in 1..(n + TailLen) |-> junk])
            IN  /\ pools' = Append(pools, r.pool)
                /\ mem' = [a \in DOMAIN mem \cup {r.pool.bitmap} |->
                             IF a = r.pool.bitmap THEN r.bitmap ELSE mem[a]]
                /\ halted' = FALSE
                /\ last' = [op |-> "construct", pool |-> Len(pools) + 1,
                            a |-> b, n |-> n, ret |-> 0,
                            msg |-> "Frame Pool initialized"]
       ELSE /\ halted' = TRUE
            /\ last' = [op |-> "construct", pool |-> 0, a |-> b, n |-> n,
                        ret |-> 0, msg |-> "assert"]
            /\ UNCHANGED <<pools, mem>>
  /\ UNCHANGED <<junk, n_marks, vmvars>>

(* ------------------------------ get_frames ----------------------------- *)
\* Variant of the search loop that keeps counting across a frame in use.
RECURSIVE ScanLoop_NoReset(_, _, _, _, _)
ScanLoop_NoReset(bitmap, n_frames, req, i, count) ==
  IF i >= n_frames
    THEN [found |-> 0, i |-> i]
    ELSE LET c == IF get_state(bitmap, i) = "Free" THEN count + 1 ELSE count
         IN  IF c = req THEN [found |-> 1, i |-> i]
                        ELSE ScanLoop_NoReset(bitmap, n_frames, req, i + 1, c)

\* The search loop of get_frames: i, found and count as the loop leaves them.
RECURSIVE ScanLoop(_, _, _, _, _)
ScanLoop(bitmap, n_frames, req, i, count) ==
  IF i >= n_frames
    THEN [found |-> 0, i |-> i]
    ELSE LET c == IF get_state(bitmap, i) = "Free" THEN count + 1 ELSE 0
         IN  IF c = req THEN [found |-> 1, i |-> i]
                        ELSE ScanLoop(bitmap, n_frames, req, i + 1, c)

\* Variant of the marking loop that writes HoS for every frame of the run.
RECURSIVE MarkUsed_AsHead(_, _, _)
MarkUsed_AsHead(bitmap, i, end) ==
  IF i < end THEN MarkUsed_AsHead(set_state(bitmap, i, "HoS"), i + 1, end)
             ELSE bitmap

\* for(i = start_frame+1; i < start_frame+_n_frames; i++) set_state(i, Used)
RECURSIVE MarkUsed(_, _, _)
MarkUsed(bitmap, i, end) ==
  IF i < end THEN MarkUsed(set_state(bitmap, i, "Used"), i + 1, end)
             ELSE bitmap

StartFrame(i, req) == i - req + 1

\* Variant of get_frames whose search starts at the pool's second frame.
get_frames_FromSecond(p, bitmap, req) ==
  LET s == ScanLoop(bitmap, p.n_frames, req, 1, 0)
  IN  IF s.found = 0
        THEN [pool |-> p, bitmap |-> bitmap, ret |-> 0,
              msg |-> "Continuous memory not found"]
        ELSE LET start_frame == StartFrame(s.i, req)
                 extra == IF req > 1 THEN req - 1 ELSE 0
             IN  [pool   |-> [p EXCEPT !.n_free_frames =
                                 (p.n_free_frames - 1 - extra) % WordMod],
                  bitmap |-> MarkUsed(set_state(bitmap, start_frame, "HoS"),
                                      start_frame + 1, start_frame + req),
                  ret    |-> (start_frame + p.base_frame_no) % WordMod,
                  msg    |-> ""]

\* get_frames past its assert: the new pool fields, bitmap and return value.
get_frames(p, bitmap, req) ==
  LET s == ScanLoop(bitmap, p.n_frames, req, 0, 0)
  IN  IF s.found = 0
        THEN [pool |-> p, bitmap |-> bitmap, ret |-> 0,
              msg |-> "Continuous memory not found"]
        ELSE LET start_frame == StartFrame(s.i, req)
                 extra == IF req > 1 THEN req - 1 ELSE 0
             IN  [pool   |-> [p EXCEPT !.n_free_frames =
                                 (p.n_free_frames - 1 - extra) % WordMod],
                  bitmap |-> MarkUsed(set_state(bitmap, start_frame, "HoS"),
                                      start_frame + 1, start_frame + req),
                  ret    |-> (start_frame + p.base_frame_no) % WordMod,
                  msg    |-> ""]

GetFrames(k, req) ==
  /\ ~halted
  /\ k \in 1..Len(pools)
  /\ LET p == pools[k]
     IN  IF p.n_free_frames > 0
           THEN LET r == get_frames(p, mem[p.bitmap], req)
                IN  /\ pools' = [pools EXCEPT ![k] = r.pool]
                    /\ mem' = [mem EXCEPT ![p.bitmap] = r.bitmap]
                    /\ halted' = FALSE
                    /\ last' = [op |-> "get_frames", pool |-> k, a |-> 0,
                                n |-> req, ret |-> r.ret, msg |-> r.msg]
           ELSE /\ halted' = TRUE
                /\ last' = [op |-> "get_frames", pool |-> k, a |-> 0,
                            n |-> req, ret |-> 0, msg |-> "assert"]
                /\ UNCHANGED <<pools, mem>>
  /\ UNCHANGED <<junk, n_marks, vmvars>>

(* --------------------------- mark_inaccessible ------------------------- *)
mark_inaccessible(p, bitmap, base_frame_no, n) ==
  LET extra == IF n > 1 THEN n - 1 ELSE 0
  IN  [pool   |-> [p EXCEPT !.n_free_frames =
                      (p.n_free_frames - 1 - extra) % WordMod],
       bitmap |-> MarkUsed(set_state(bitmap, base_frame_no, "HoS"),
                           base_frame_no + 1, base_frame_no + n)]

MarkInaccessible(k, b, n) ==
  /\ ~halted
  /\ n_marks < MaxMarks
  /\ k \in 1..Len(pools)
  /\ LET p == pools[k]
         bitmap == mem[p.bitmap]
     IN  \* the range is one of the pool's own; the writes stay in modelled memory
         /\ b \in Range(p)
         /\ b + n - 1 \in Range(p)
         /\ (IF n > 1 THEN b + n - 1 ELSE b) < Len(bitmap)
         /\ LET r == mark_inaccessible(p, bitmap, b, n)
            IN  /\ pools' = [pools EXCEPT ![k] = r.pool]
                /\ mem' = [mem EXCEPT ![p.bitmap] = r.bitmap]
  /\ n_marks' = n_marks + 1
  /\ last' = [op |-> "mark_inaccessible", pool |-> k, a |-> b, n |-> n,
              ret |-> 0, msg |-> ""]
  /\ UNCHANGED <<halted, junk, vmvars>>

(* ----------------------------- release_frames -------------------------- *)
\* Variant of the list walk whose range test admits base_frame_no + n_frames.
RECURSIVE FindPool_Inclusive(_, _, _)
FindPool_Inclusive(list, k, first_frame_no) ==
  IF k > Len(list) THEN 0
  ELSE IF /\ list[k].base_frame_no <= first_frame_no
          /\ first_frame_no <= list[k].base_frame_no + list[k].n_frames
         THEN k
         ELSE FindPool_Inclusive(list, k + 1, first_frame_no)

\* The walk over the pool list: index of the first pool whose range holds
\* the frame, 0 when curr_pool ends as NULL.
RECURSIVE FindPool(_, _, _)
FindPool(list, k, first_frame_no) ==
  IF k > Len(list) THEN 0
  ELSE IF /\ list[k].base_frame_no <= first_frame_no
          /\ first_frame_no < list[k].base_frame_no + list[k].n_frames
         THEN k
         ELSE FindPool(list, k + 1, first_frame_no)

\* while(get_state(f - base) == Used) { set_state(.., Free); n_free_frames++; f++ }
\* The field after the modelled storage is taken to read something else
\* than Used, which bounds the walk by the storage modelled.
RECURSIVE Sweep(_, _, _)
Sweep(bitmap, idx, freed) ==
  IF idx < Len(bitmap) /\ get_state(bitmap, idx) = "Used"
    THEN Sweep(set_state(bitmap, idx, "Free"), idx + 1, freed + 1)
    ELSE [bitmap |-> bitmap, freed |-> freed]

\* Variant of release_frames that refuses only a frame that is Free.
release_frames_UsedAccepted(list, memory, first_frame_no) ==
  LET k == FindPool(list, 1, first_frame_no)
  IN  IF k = 0
        THEN [pools |-> list, mem |-> memory, pool |-> 0,
              msg |-> "Pool not found"]
        ELSE LET curr_pool == list[k]
                 bitmap == memory[curr_pool.bitmap]
                 idx == first_frame_no - curr_pool.base_frame_no
             IN  IF get_state(bitmap, idx) = "Free"
                   THEN [pools |-> list, mem |-> memory, pool |-> k,
                         msg |-> "First frame is not a head frame"]
                   ELSE LET s == Sweep(set_state(bitmap, idx, "Free"),
                                       idx + 1, 1)
                        IN  [pools |-> [list EXCEPT ![k].n_free_frames =
                                          (@ + s.freed) % WordMod],
                             mem   |-> [memory EXCEPT
                                          ![curr_pool.bitmap] = s.bitmap],
                             pool  |-> k,
                             msg   |-> ""]

release_frames(list, memory, first_frame_no) ==
  LET k == FindPool(list, 1, first_frame_no)
  IN  IF k = 0
        THEN [pools |-> list, mem |-> memory, pool |-> 0,
              msg |-> "Pool not found"]
        ELSE LET curr_pool == list[k]
                 bitmap == memory[curr_pool.bitmap]
                 idx == first_frame_no - curr_pool.base_frame_no
             IN  IF get_state(bitmap, idx) # "HoS"
                   THEN [pools |-> list, mem |-> memory, pool |-> k,
                         msg |-> "First frame is not a head frame"]
                   ELSE LET s == Sweep(set_state(bitmap, idx, "Free"),
                                       idx + 1, 1)
                        IN  [pools |-> [list EXCEPT ![k].n_free_frames =
                                          (@ + s.freed) % WordMod],
                             mem   |-> [memory EXCEPT
                                          ![curr_pool.bitmap] = s.bitmap],
                             pool  |-> k,
                             msg   |-> ""]

ReleaseFrames(f) ==
  /\ ~halted
  /\ LET r == release_frames(pools, mem, f)
     IN  /\ pools' = r.pools
         /\ mem' = r.mem
         /\ last' = [op |-> "release_frames", pool |-> r.pool, a |-> f,
                     n |-> 0, ret |-> 0, msg |-> r.msg]
  /\ UNCHANGED <<halted, junk, n_marks, vmvars>>

(* --------------------------- needed_info_frames ------------------------ *)
needed_info_frames(n_frames) ==
  LET max_bits_in_frame == (8 * FRAME_SIZE) \div 2
  IN  (n_frames \div max_bits_in_frame)
        + (IF n_frames % max_bits_in_frame > 0 THEN 1 ELSE 0)

(* ================================ VMPool =============================== *)
\* Bytes per page, scaled down like the frame.
PAGE_SIZE == 4
\* Capacity of the region table, scaled down.
MAX_VM_REGIONS == 3
\* Pages in the pool's range.
VMPages == 3
\* allocate is explored while the new region starts less than MaxSpan pages
\* above _base_address.
MaxSpan == 4

\* _base_address values offered to the constructor (page aligned).
VMBases == {PAGE_SIZE * 2}
\* Sizes offered to allocate: none, a page, a page and a byte, and the
\* largest value of the word.
ReqSizes == {0, PAGE_SIZE, PAGE_SIZE + 1, WordMod - 1}
\* What the memory of the table holds before a slot is written.
JunkRegions == {[base |-> 0, size |-> 0],
                [base |-> PAGE_SIZE * 5, size |-> PAGE_SIZE]}
\* Slots of table memory modelled: the table and the slot behind it.
Slots == 0 .. MAX_VM_REGIONS

NoVMCall == [op |-> "none", a |-> 0, ret |-> 0, indx |-> 0, calls |-> <<>>,
             msg |-> ""]

\* VMPool::VMPool: the four fields, region_iterator = 0, the table at
\* _base_address with whatever that memory holds.
VMPool(base_address, size, before) ==
  [vm |-> [base_address |-> base_address, size |-> size,
           region_iterator |-> 0],
   allocated_region |-> [j \in Slots |-> before]]

\* n_pages_needed and final_mem_size of allocate, in word arithmetic.
FinalMemSize(size) ==
  LET n_pages_needed ==
        ((size \div PAGE_SIZE) + (IF size % PAGE_SIZE > 0 THEN 1 ELSE 0))
          % WordMod
  IN  (n_pages_needed * PAGE_SIZE) % WordMod

\* The base address allocate gives the new region.
NextBase(pool, table) ==
  IF pool.region_iterator = 0
    THEN pool.base_address
    ELSE (table[pool.region_iterator - 1].base
            + table[pool.region_iterator - 1].size) % WordMod

\* allocate past its two asserts.
allocate(pool, table, size) ==
  LET ri == pool.region_iterator
      t2 == [table EXCEPT ![ri] = [base |-> NextBase(pool, table),
                                   size |-> FinalMemSize(size)]]
  IN  [vm |-> [pool EXCEPT !.region_iterator = (ri + 1) % WordMod],
       allocated_region |-> t2,
       ret |-> t2[ri].base]

Allocate(size) ==
  /\ ~vm_halted
  /\ vm.region_iterator \in Slots
  /\ IF size = 0
       THEN /\ vm_halted' = TRUE
            /\ vm_last' = [NoVMCall EXCEPT !.op = "allocate", !.a = size,
                              !.msg = "Invalid size for allocate"]
            /\ UNCHANGED <<vm, allocated_region>>
       ELSE IF vm.region_iterator = MAX_VM_REGIONS
       THEN /\ vm_halted' = TRUE
            /\ vm_last' = [NoVMCall EXCEPT !.op = "allocate", !.a = size,
                              !.msg = "VM full"]
            /\ UNCHANGED <<vm, allocated_region>>
       ELSE LET r == allocate(vm, allocated_region, size)
            IN  /\ vm' = r.vm
                /\ allocated_region' = r.allocated_region
                /\ vm_halted' = FALSE
                /\ vm_last' = [NoVMCall EXCEPT !.op = "allocate", !.a = size,
                                  !.ret = r.ret]
  /\ UNCHANGED <<released, fvars>>

\* for(; indx < region_iterator; indx++) if(base == _start_address) break;
RECURSIVE FindRegion(_, _, _, _)
FindRegion(table, region_iterator, start_address, indx) ==
  IF indx < region_iterator /\ table[indx].base # start_address
    THEN FindRegion(table, region_iterator, start_address, indx + 1)
    ELSE indx

\* Variant of the free_page loop that starts at the region's second page.
FreePages_FromSecond(region, live) ==
  [i \in 1 .. ((region.size \div PAGE_SIZE) - 1) |->
     [call |-> "free_page",
      address |-> (region.base + i * PAGE_SIZE) % WordMod,
      live |-> live]]

\* The free_page calls of release, in order.  live is region_iterator as it
\* stands when the call is made.
FreePages(region, live) ==
  [i \in 1 .. (region.size \div PAGE_SIZE) |->
     [call |-> "free_page",
      address |-> (region.base + (i - 1) * PAGE_SIZE) % WordMod,
      live |-> live]]

\* Variant of the compaction that leaves the slot found as it is.
Compact_FromNext(table, indx, region_iterator) ==
  [j \in DOMAIN table |->
     IF indx < j /\ j < region_iterator THEN table[j + 1] ELSE table[j]]

\* for(; indx < region_iterator; indx++) table[indx] = table[indx+1]
Compact(table, indx, region_iterator) ==
  [j \in DOMAIN table |->
     IF indx <= j /\ j < region_iterator THEN table[j + 1] ELSE table[j]]

release(pool, table, start_address) ==
  LET ri == pool.region_iterator
      indx == FindRegion(table, ri, start_address, 0)
  IN  [vm |-> [pool EXCEPT !.region_iterator = (ri - 1) % WordMod],
       allocated_region |-> Compact(table, indx, ri),
       indx |-> indx,
       \* free_page per page, then the compaction and the decrement, then load
       calls |-> Append(FreePages(table[indx], ri),
                        [call |-> "load", address |-> 0,
                         live |-> (ri - 1) % WordMod])]

Release(start_address) ==
  /\ ~vm_halted
  /\ vm.region_iterator \in Slots
  /\ LET r == release(vm, allocated_region, start_address)
     IN  /\ vm' = r.vm
         /\ allocated_region' = r.allocated_region
         /\ vm_last' = [NoVMCall EXCEPT !.op = "release", !.a = start_address,
                           !.indx = r.indx, !.calls = r.calls]
  /\ released' = TRUE
  /\ UNCHANGED <<vm_halted, handed, fvars>>

\* base_address <= address <= base_address + size
is_legitimate(pool, address) ==
  LET last_address == (pool.base_address + pool.size) % WordMod
  IN  address >= pool.base_address /\ address <= last_address

(* ----------------------------- specifications -------------------------- *)
NoVM ==
  /\ vm = [base_address |-> 0, size |-> 0, region_iterator |-> 0]
  /\ allocated_region = <<>>
  /\ vm_last = NoVMCall
  /\ vm_halted = FALSE
  /\ released = FALSE
  /\ handed = [bases |-> {}, addresses |-> {}]

NoFramePool ==
  /\ pools = <<>>
  /\ mem = <<>>
  /\ last = NoCall
  /\ halted = FALSE
  /\ junk = 0
  /\ n_marks = 0

Init ==
  /\ pools = <<>>
  /\ mem = <<>>
  /\ last = NoCall
  /\ halted = FALSE
  /\ junk \in JunkSet
  /\ n_marks = 0
  /\ NoVM

\* Bytes one descriptor of the table takes, scaled down with PAGE_SIZE.
SizeofRegion == 2

\* The storage of the region table: allocated_region = _base_address, with
\* room for MAX_VM_REGIONS descriptors.
TableStorage(pool) ==
  pool.base_address .. (pool.base_address + MAX_VM_REGIONS * SizeofRegion - 1)

\* A VMPool right after its constructor.
InitVM ==
  /\ NoFramePool
  /\ \E b \in VMBases, before \in JunkRegions :
       LET c == VMPool(b, VMPages * PAGE_SIZE, before)
       IN  vm = c.vm /\ allocated_region = c.allocated_region
  /\ vm_last = NoVMCall
  /\ vm_halted = FALSE
  /\ released = FALSE
  /\ handed = [bases |-> {}, addresses |-> {}]

\* The addresses of a region.
Addresses(region) == region.base .. (region.base + region.size - 1)

AllocateSome ==
  /\ vm.region_iterator \in Slots
  /\ NextBase(vm, allocated_region) < vm.base_address + MaxSpan * PAGE_SIZE
  /\ \E size \in ReqSizes : Allocate(size)
  /\ UNCHANGED handed

\* release of the base address of a live region
ReleaseLive ==
  /\ vm.region_iterator \in Slots
  /\ \E k \in 0 .. (vm.region_iterator - 1) : Release(allocated_region[k].base)

NextVM == AllocateSome \/ ReleaseLive

SpecVM == InitVM /\ [][NextVM]_vars

\* allocate, with what it returns added to the record of regions handed out
AllocateRecorded ==
  /\ vm.region_iterator \in Slots
  /\ NextBase(vm, allocated_region) < vm.base_address + MaxSpan * PAGE_SIZE
  /\ \E size \in ReqSizes : Allocate(size)
  /\ handed' =
       IF vm_halted'
         THEN handed
         ELSE [bases |-> handed.bases \cup {vm_last'.ret},
               addresses |-> handed.addresses \cup
                  Addresses(allocated_region'[vm.region_iterator])]

NextVMHist == AllocateRecorded \/ ReleaseLive

\* allocate and release of live regions, with the record of every region
\* allocate has returned
SpecVMHist == InitVM /\ [][NextVMHist]_vars

\* The bases of the live descriptors.
LiveBases(pool, table) ==
  IF pool.region_iterator \in Slots
    THEN {table[k].base : k \in 0 .. (pool.region_iterator - 1)}
    ELSE {}

\* release of a page address that is no live region's base
ReleaseMiss ==
  /\ vm.region_iterator \in Slots
  /\ \E k \in 0 .. MaxSpan :
       LET a == vm.base_address + k * PAGE_SIZE
       IN  a \notin LiveBases(vm, allocated_region) /\ Release(a)

NextVMMiss == AllocateSome \/ ReleaseLive \/ ReleaseMiss

\* allocate and release, of live regions and of addresses never handed out
SpecVMMiss == InitVM /\ [][NextVMMiss]_vars

\* Construction of pools of up to MaxPoolFrames frames, in either order.
ConstructSmall ==
  \E sh \in Shapes, i \in InfoSet : Construct(sh[1], sh[2], i)

\* Construction of a single pool.
ConstructFirst ==
  /\ pools = <<>>
  /\ \E b \in BaseSet, n \in SizeSet, i \in InfoSet : Construct(b, n, i)

GetSome == \E k \in 1..Len(pools), req \in 1..(MaxPoolFrames + 1) : GetFrames(k, req)

ReleaseSome == \E f \in FrameNos : ReleaseFrames(f)

MarkSome ==
  \E k \in 1..Len(pools), b \in FrameNos, n \in 1..MaxPoolFrames :
     MarkInaccessible(k, b, n)

\* Sizes around the two capacities in play: one frame of 2-bit entries
\* (FRAME_SIZE * 4) and the constructor's own limit (FRAME_SIZE * 8).
CtorSizes ==
  {1, FRAME_SIZE * 4, FRAME_SIZE * 4 + 1, FRAME_SIZE * 8, FRAME_SIZE * 8 + 1}
CtorBases == {0, FRAME_SIZE * 8}
CtorInfos == {0, FRAME_SIZE * 32}

ConstructAny ==
  \E b \in CtorBases, n \in CtorSizes, i \in CtorInfos : Construct(b, n, i)

\* Pool construction alone, with sizes up to and past the limits.
SpecCtor == Init /\ [][ConstructAny]_vars

\* construct / get_frames / release_frames
Next == ConstructSmall \/ GetSome \/ ReleaseSome

\* No pool's free count has wrapped below zero.
NotWrapped == \A k \in 1..Len(pools) : pools[k].n_free_frames < WordMod \div 2

\* get_frames of any count, none included; calls are followed until a free
\* count wraps.
GetAny ==
  /\ NotWrapped
  /\ \E k \in 1..Len(pools), req \in 0..(MaxPoolFrames + 1) : GetFrames(k, req)

ReleaseCounted == NotWrapped /\ ReleaseSome

NextZero == ConstructFirst \/ GetAny \/ ReleaseCounted

\* construction, get_frames of any count including 0, release_frames
SpecZero == Init /\ [][NextZero]_vars

Spec == Init /\ [][Next]_vars

\* ... and mark_inaccessible
NextMark == ConstructFirst \/ GetSome \/ ReleaseSome \/ MarkSome

SpecMark == Init /\ [][NextMark]_vars

(* ================================ claims =============================== *)
\* The frames of a pool, by index, and what the bitmap says about them.
Indices(p) == 0 .. (p.n_frames - 1)
StateOf(memory, p, idx) == get_state(memory[p.bitmap], idx)
FreeRunAt(memory, p, s, n) ==
  \A j \in s .. (s + n - 1) : j \in Indices(p) /\ StateOf(memory, p, j) = "Free"
HasFreeRun(memory, p, n) == \E s \in Indices(p) : FreeRunAt(memory, p, s, n)
FreeCount(memory, p) ==
  Cardinality({j \in Indices(p) : StateOf(memory, p, j) = "Free"})
\* Frames of the pool other than s .. s+n-1 read the same before and after.
SameOutside(p, s, n) ==
  \A j \in Indices(p) \ (s .. (s + n - 1)) :
     StateOf(mem', p, j) = StateOf(mem, p, j)
\* The registered pools whose range holds frame f.
Owners(list, f) == {k \in 1..Len(list) : f \in Range(list[k])}

\* C1: in a pool built and used through construct / get_frames / release_frames,
\* get_frames(n), n >= 1, called while n consecutive Free frames exist returns
\* base_frame_no + s where frames s .. s+n-1 were all Free before the call; after
\* it frame s is HeadOfSequence, s+1 .. s+n-1 are Used, no other frame changed
\* and the free count is n lower.
C1_GetFramesMarksFreeRun ==
  [][\A k \in 1..Len(pools) :
       (/\ last'.op = "get_frames" /\ last'.pool = k /\ last'.n >= 1
        /\ HasFreeRun(mem, pools[k], last'.n))
       => LET p == pools[k]
              n == last'.n
              s == last'.ret - p.base_frame_no
          IN  /\ last'.msg = ""
              /\ s \in Indices(p)
              /\ FreeRunAt(mem, p, s, n)
              /\ StateOf(mem', p, s) = "HoS"
              /\ \A j \in (s + 1) .. (s + n - 1) : StateOf(mem', p, j) = "Used"
              /\ SameOutside(p, s, n)
              /\ pools'[k].n_free_frames = p.n_free_frames - n]_vars

\* C1 witness: a two-frame run handed out behind a run that is still live.
C1_Witness ==
  /\ last.op = "get_frames" /\ last.n = 2 /\ last.msg = ""
  /\ LET p == pools[last.pool]
         s == last.ret - p.base_frame_no
     IN  /\ s >= 1
         /\ StateOf(mem, p, s - 1) = "HoS"
         /\ StateOf(mem, p, s) = "HoS"
         /\ StateOf(mem, p, s + 1) = "Used"

\* The run a head frame starts: the head and the Used frames of the pool
\* that follow it without a gap.
RECURSIVE RunLen(_, _, _)
RunLen(memory, p, idx) ==
  IF idx + 1 \in Indices(p) /\ StateOf(memory, p, idx + 1) = "Used"
    THEN 1 + RunLen(memory, p, idx + 1)
    ELSE 1

\* C2 (as stated): release_frames(f) of a live head frame f sets the n frames
\* of its run to Free, changes no other frame of the pool and raises the
\* pool's free count by exactly n, also for a run that ends at the pool's
\* last frame.
C2_ReleaseRestoresRun ==
  [][(last'.op = "release_frames" /\ last'.msg = "")
       => LET k == last'.pool
              p == pools[k]
              idx == last'.a - p.base_frame_no
              n == RunLen(mem, p, idx)
          IN  /\ FreeRunAt(mem', p, idx, n)
              /\ SameOutside(p, idx, n)
              /\ pools'[k].n_free_frames = p.n_free_frames + n]_vars

\* C3: release_frames(f) changes no pool and no bitmap when f lies in no
\* registered pool's range or when f is Used or Free in its pool; a second
\* release_frames(f) right after a successful one changes nothing either.
C3_RejectedReleaseChangesNothing ==
  [][(last'.op = "release_frames")
       => /\ (\/ Owners(pools, last'.a) = {}
              \/ \E k \in Owners(pools, last'.a) :
                   StateOf(mem, pools[k], last'.a - pools[k].base_frame_no)
                     \in {"Used", "Free"})
             => (pools' = pools /\ mem' = mem /\ last'.msg # "")
          /\ (last.op = "release_frames" /\ last.msg = "" /\ last'.a = last.a)
             => (pools' = pools /\ mem' = mem /\ last'.msg # "")]_vars

\* C3 witness: a release of a Used (non-head) frame of a live run was refused.
C3_Witness ==
  /\ last.op = "release_frames"
  /\ last.msg = "First frame is not a head frame"
  /\ LET p == pools[last.pool]
         idx == last.a - p.base_frame_no
     IN  /\ idx >= 1
         /\ StateOf(mem, p, idx) = "Used"
         /\ StateOf(mem, p, idx - 1) = "HoS"

\* C4: get_frames(n), n >= 1, on a pool that has a free frame but no n
\* consecutive Free frames returns 0 and leaves the pool's frame states and
\* free count as they were.
C4_FailedGetFramesChangesNothing ==
  [][\A k \in 1..Len(pools) :
       (/\ last'.op = "get_frames" /\ last'.pool = k /\ last'.n >= 1
        /\ FreeCount(mem, pools[k]) >= 1
        /\ ~HasFreeRun(mem, pools[k], last'.n))
       => /\ last'.ret = 0
          /\ last'.msg = "Continuous memory not found"
          /\ pools' = pools
          /\ mem' = mem]_vars

\* C4 witness: two free frames, not adjacent, and a request for two refused.
C4_Witness ==
  /\ last.op = "get_frames" /\ last.n = 2
  /\ last.msg = "Continuous memory not found"
  /\ LET p == pools[last.pool]
     IN  /\ FreeCount(mem, p) = 2
         /\ p.n_free_frames = 2

\* C5 (as stated): whenever get_frames returns 0 nothing was allocated and the
\* pool is as before; a successful allocation never returns 0.
C5_ZeroMeansFailure ==
  [][(last'.op = "get_frames" /\ last'.n >= 1 /\ last'.ret = 0)
       => (pools' = pools /\ mem' = mem)]_vars

\* C6 (as stated): every constructed pool has n_frames <= FRAME_SIZE * 4, that
\* is needed_info_frames(n_frames) <= 1; larger pools fail the assert.
C6_BitmapFitsOneFrame ==
  /\ \A k \in 1..Len(pools) : needed_info_frames(pools[k].n_frames) <= 1
  /\ (last.op = "construct" /\ last.n > FRAME_SIZE * 4) => last.msg = "assert"

\* C7 (as stated): mark_inaccessible(b, n) on a Free range [b, b+n) of the
\* pool's frames leaves frame b - base_frame_no HeadOfSequence, the n-1 frames
\* behind it Used, every other frame as it was and the free count n lower.
C7_MarkInaccessibleMarksRange ==
  [][\A k \in 1..Len(pools) :
       (/\ last'.op = "mark_inaccessible" /\ last'.pool = k /\ last'.n >= 1
        /\ FreeRunAt(mem, pools[k], last'.a - pools[k].base_frame_no, last'.n))
       => LET p == pools[k]
              n == last'.n
              s == last'.a - p.base_frame_no
          IN  /\ StateOf(mem', p, s) = "HoS"
              /\ \A j \in (s + 1) .. (s + n - 1) : StateOf(mem', p, j) = "Used"
              /\ SameOutside(p, s, n)
              /\ pools'[k].n_free_frames = p.n_free_frames - n]_vars

RoundUp(size) == ((size + PAGE_SIZE - 1) \div PAGE_SIZE) * PAGE_SIZE

\* C9 (as stated): with a page-aligned _base_address and no release so far,
\* every allocate(size), size > 0, that returns gives a page-aligned address:
\* _base_address for the first region, else the previous region's base plus
\* its page-rounded size, which lies above the previous base; the region
\* recorded has the page-rounded size and region_iterator grows by one.
C9_AllocateBackToBack ==
  [][(/\ vm_last'.op = "allocate" /\ vm_last'.msg = "" /\ vm_last'.a > 0
      /\ ~released
      /\ vm.base_address % PAGE_SIZE = 0)
       => LET ri == vm.region_iterator
              ret == vm_last'.ret
          IN  /\ ret % PAGE_SIZE = 0
              /\ vm'.region_iterator = ri + 1
              /\ allocated_region'[ri].base = ret
              /\ allocated_region'[ri].size = RoundUp(vm_last'.a)
              /\ IF ri = 0
                   THEN ret = vm.base_address
                   ELSE /\ ret = allocated_region[ri - 1].base
                                   + allocated_region[ri - 1].size
                        /\ ret > allocated_region[ri - 1].base]_vars

\* C10: release(a) of the base address a of a live descriptor, found at slot
\* k (the first slot holding a) among r live ones, leaves r-1 live
\* descriptors: slots 0 .. k-1 as they were and every slot j in k .. r-2
\* holding the base and size slot j+1 held.
C10_ReleaseCompacts ==
  [][(/\ vm_last'.op = "release"
      /\ \E k \in 0 .. (vm.region_iterator - 1) :
            allocated_region[k].base = vm_last'.a)
       => LET r == vm.region_iterator
              k == CHOOSE k \in 0 .. (r - 1) :
                     /\ allocated_region[k].base = vm_last'.a
                     /\ \A j \in 0 .. (k - 1) :
                          allocated_region[j].base # vm_last'.a
          IN  /\ vm'.region_iterator = r - 1
              /\ \A j \in 0 .. (k - 1) :
                   allocated_region'[j] = allocated_region[j]
              /\ \A j \in k .. (r - 2) :
                   allocated_region'[j] = allocated_region[j + 1]]_vars

\* C10 witness: the first of MAX_VM_REGIONS live regions was released and the
\* descriptors behind it moved down with their addresses.
C10_Witness ==
  /\ vm_last.op = "release" /\ vm_last.indx = 0
  /\ vm_last.a = vm.base_address
  /\ vm.region_iterator = MAX_VM_REGIONS - 1
  /\ allocated_region[0].base > vm.base_address
  /\ allocated_region[1].base > allocated_region[0].base

\* The slot release finds for address a: the first live slot holding it.
SlotOf(pool, table, a) ==
  CHOOSE k \in 0 .. (pool.region_iterator - 1) :
     /\ table[k].base = a
     /\ \A j \in 0 .. (k - 1) : table[j].base # a

\* C11: release(a) of a live region of p pages calls free_page once for each
\* of a, a+PAGE_SIZE, .., a+(p-1)*PAGE_SIZE, in that order and for nothing
\* else, and then load once, after the last free_page and with the
\* descriptor already removed.
C11_ReleaseFreesEachPageOnce ==
  [][(/\ vm_last'.op = "release"
      /\ vm_last'.a \in LiveBases(vm, allocated_region))
       => LET region == allocated_region[SlotOf(vm, allocated_region,
                                                 vm_last'.a)]
              p == region.size \div PAGE_SIZE
              calls == vm_last'.calls
          IN  /\ Len(calls) = p + 1
              /\ \A i \in 1 .. p :
                   /\ calls[i].call = "free_page"
                   /\ calls[i].address = vm_last'.a + (i - 1) * PAGE_SIZE
                   /\ calls[i].live = vm.region_iterator
              /\ calls[p + 1].call = "load"
              /\ calls[p + 1].live = vm.region_iterator - 1
              /\ vm'.region_iterator = vm.region_iterator - 1]_vars

\* C11 witness: the release of a two-page region, with another region live.
C11_Witness ==
  /\ vm_last.op = "release"
  /\ Len(vm_last.calls) = 3
  /\ vm_last.calls[1] = [call |-> "free_page", address |-> vm_last.a,
                         live |-> vm.region_iterator + 1]
  /\ vm_last.calls[2].address = vm_last.a + PAGE_SIZE
  /\ vm_last.calls[3].call = "load"
  /\ vm.region_iterator >= 1

\* C12 (as stated): release(a) with a the base of no live descriptor leaves
\* region_iterator and every live descriptor as they were and calls free_page
\* for no page.
C12_ReleaseOfUnmappedRejected ==
  [][(/\ vm_last'.op = "release"
      /\ vm_last'.a \notin LiveBases(vm, allocated_region))
       => /\ vm'.region_iterator = vm.region_iterator
          /\ \A k \in 0 .. (vm.region_iterator - 1) :
               allocated_region'[k] = allocated_region[k]
          /\ \A i \in 1 .. Len(vm_last'.calls) :
               vm_last'.calls[i].call # "free_page"]_vars

\* C13 (as stated): in every state reached by construction, get_frames,
\* mark_inaccessible and release_frames, n_free_frames of every pool is the
\* number of its frames that read Free, and so lies in 0 .. n_frames.
C13_FreeCountMatchesBitmap ==
  \A k \in 1..Len(pools) :
     /\ pools[k].n_free_frames = FreeCount(mem, pools[k])
     /\ pools[k].n_free_frames \in 0 .. pools[k].n_frames

\* A head frame below idx with nothing but Used frames up to idx.
HasHead(memory, p, idx) ==
  \E h \in 0 .. (idx - 1) :
     /\ StateOf(memory, p, h) = "HoS"
     /\ \A j \in (h + 1) .. idx : StateOf(memory, p, j) = "Used"

\* C14 (as stated): in every reachable state, self-hosted pools included,
\* every Used frame of a pool lies in a block of Used frames that a
\* HeadOfSequence frame immediately precedes, and the block is followed
\* inside the pool's range by a frame that is Free or HeadOfSequence.
C14_EveryUsedFrameHasHead ==
  \A k \in 1..Len(pools) :
     \A idx \in Indices(pools[k]) :
        StateOf(mem, pools[k], idx) = "Used"
          => /\ HasHead(mem, pools[k], idx)
             /\ \E e \in (idx + 1) .. (pools[k].n_frames - 1) :
                  /\ StateOf(mem, pools[k], e) # "Used"
                  /\ \A j \in idx .. (e - 1) :
                       StateOf(mem, pools[k], j) = "Used"

\* C16: get_frames(n), n >= 1, that succeeds with offset s leaves no lower
\* offset s' < s at which frames s' .. s'+n-1 were all Free before the call.
C16_GetFramesFirstFit ==
  [][\A k \in 1..Len(pools) :
       (/\ last'.op = "get_frames" /\ last'.pool = k /\ last'.n >= 1
        /\ last'.msg = "")
       => LET p == pools[k]
              s == last'.ret - p.base_frame_no
          IN  /\ s \in Indices(p)
              /\ \A t \in 0 .. (s - 1) : ~FreeRunAt(mem, p, t, last'.n)]_vars

\* C16 witness: a one-frame request served from the lower of two gaps, a
\* live run between them and the upper gap still free afterwards.
C16_Witness ==
  /\ last.op = "get_frames" /\ last.n = 1 /\ last.msg = ""
  /\ LET p == pools[last.pool]
         s == last.ret - p.base_frame_no
     IN  /\ s + 2 \in Indices(p)
         /\ StateOf(mem, p, s) = "HoS"
         /\ StateOf(mem, p, s + 1) = "HoS"
         /\ StateOf(mem, p, s + 2) = "Free"

\* C17 (as stated): a release_frames that frees a run writes no frame state
\* at index n_frames or beyond of the owning pool's bitmap storage.
C17_SweepStaysInsidePool ==
  [][\A k \in 1..Len(pools) :
       (/\ last'.op = "release_frames" /\ last'.pool = k /\ last'.msg = "")
       => \A f \in DOMAIN mem[pools[k].bitmap] :
            f - 1 >= pools[k].n_frames
              => mem'[pools[k].bitmap][f] = mem[pools[k].bitmap][f]]_vars

\* C15 (as stated): with releases of live bases only, allocate never returns
\* an address an earlier allocate returned, and the new region has no
\* address in common with any region handed out before, live or released.
C15_NoAddressReuse ==
  [][(vm_last'.op = "allocate" /\ vm_last'.msg = "")
       => /\ vm_last'.ret \notin handed.bases
          /\ Addresses(allocated_region'[vm.region_iterator])
               \cap handed.addresses = {}]_vars

\* C18 (as stated): get_frames(0) on a pool with at least one free frame
\* changes no frame state and leaves the free count as it was.
C18_GetZeroFramesChangesNothing ==
  [][\A k \in 1..Len(pools) :
       (/\ last'.op = "get_frames" /\ last'.pool = k /\ last'.n = 0
        /\ pools[k].n_free_frames > 0)
       => /\ mem' = mem
          /\ pools'[k].n_free_frames = pools[k].n_free_frames]_vars

\* C19 (as stated): every live descriptor (b, s) has base_address <= b and
\* b + s <= base_address + size, and every address inside a live region is
\* accepted by is_legitimate.
C19_LiveRegionsInsidePool ==
  vm.region_iterator \in Slots
    => \A k \in 0 .. (vm.region_iterator - 1) :
         LET b == allocated_region[k].base
             s == allocated_region[k].size
         IN  /\ vm.base_address <= b
             /\ b + s <= vm.base_address + vm.size
             /\ \A a \in Addresses(allocated_region[k]) : is_legitimate(vm, a)

\* C20 (as stated): no live region handed out by allocate has an address in
\* common with the storage of the pool's region table at base_address.
C20_RegionsClearOfTable ==
  vm.region_iterator \in Slots
    => \A k \in 0 .. (vm.region_iterator - 1) :
         Addresses(allocated_region[k]) \cap TableStorage(vm) = {}

====
